---------------------------- MODULE Spec2Model ----------------------------
(***************************************************************************)
(* A model of reach (jml/reach): one shell command applied to every        *)
(* regular file of a source directory, at most num_processes at a time,    *)
(* with each child's stdout and stderr captured under                      *)
(* destination_dir/<file name>/{out,err}.                                  *)
(*                                                                         *)
(* Each::run (src/src/lib.rs:60-74) drives the tasks with                  *)
(* try_for_each_concurrent over a ReadDirStream.  Every .await of a task   *)
(* is a point where the other tasks and the stream may advance, so every   *)
(* I/O operation of a task is one action of the model, taken when the      *)
(* operation completes, and its outcome (success or an io::Error) is       *)
(* chosen by the environment.  The first Err, from the stream or from a    *)
(* task, ends try_for_each_concurrent: the futures still in flight are     *)
(* dropped and `?` at line 72 returns the error.  Dropping a task's future *)
(* does not kill a child it has spawned (Command::kill_on_drop is never    *)
(* set): the child runs on, unwaited.                                      *)
(***************************************************************************)
EXTENDS Integers, Sequences, FiniteSets, TLC

\* The largest number of entries of the source directory.
MaxEntries == 3
\* The largest num_processes.
MaxProcs == 2
\* The longest command text of SpecCmd.
MaxCmdLen == 4
\* The largest number of entries of the source directory in the
\* specifications of two runs, of the command line and of fair runs.
MaxEntriesSmall == 2

VARIABLES
    source_dir,      \* the directory: the kinds of its entries, in read order
    num_processes,   \* Config.num_processes
    input_mode,      \* Config.input_mode
    command,         \* Config.command: a sequence of characters
    pc,              \* where Each::run is
    result,          \* what Each::run returned
    error,           \* the operation whose io::Error run returned
    next_entry,      \* the index of the entry the stream yields next
    tasks,           \* per entry: the state of its future
    children,        \* per entry: the child process spawned for it
    dirs,            \* the directories that exist under destination_dir
    files,           \* the files under destination_dir, path -> bytes
    num_tasks,       \* the arguments of the calls of Progress::set_num_tasks
    completed,       \* per entry: the calls of Progress::task_completed
    opts,            \* Opts: the command line, as parse_options receives it
    hung,            \* the entries on which the command never terminates
    earlier          \* the files left by the earlier runs, one per run

vars == <<source_dir, num_processes, input_mode, command, pc, result, error,
          next_entry, tasks, children, dirs, files, num_tasks, completed,
          opts, hung, earlier>>

\* What a run does not change.
config == <<source_dir, num_processes, input_mode, command, opts, hung,
            earlier>>

---------------------------------------------------------------------------
(* The data of the run *)

\* What an entry is: a regular file, a directory, or something else (a
\* symlink: DirEntry::metadata does not follow it).
Kinds == {"file", "dir", "symlink"}

InputMode == {"Stdin", "Filename"}

Cat == <<"c", "a", "t">>

EchoPrefix == <<"e", "c", "h", "o", " ", "-", "n", " ">>

EchoName == EchoPrefix \o <<"{", "}">>

Entries == 1 .. Len(source_dir)

\* DirEntry::file_name: entries of one directory have distinct names.
file_name(i) == ToString(i)

\* DirEntry::path: the source directory (canonical, so absolute) joined
\* with the entry's name, as text.
SourceDirPath == <<"/", "s", "/">>

path(i) == SourceDirPath \o <<file_name(i)>>

\* The bytes of the i-th source file: distinct files, distinct contents.
Contents(i) == <<"content of " \o ToString(i)>>

\* IsFile as "not a directory": !metadata.is_dir().
IsFileNotDir(i) == source_dir[i] # "dir"

\* metadata.is_file()
IsFile(i) == source_dir[i] = "file"

RegularFiles == {i \in Entries : IsFile(i)}

---------------------------------------------------------------------------
(* Commands and children *)

\* The stdin of a command that sets none: the parent's.
Inherit == <<"inherit">>

NoCommand == [arg |-> <<>>, stdin |-> <<>>]

NoFile == <<>>

NewTask == [pc |-> "unread", command |-> NoCommand,
            out_file |-> NoFile, err_file |-> NoFile]

NoChild == [state |-> "none", status |-> -1, arg |-> <<>>,
            stdin |-> <<>>, stdout |-> <<>>, stderr |-> <<>>]

ExitStatuses == {0, 1}

\* str::replacen(from, to, 1): only the first match is replaced.
replaceFirst(s, from, to) ==
    IF \E k \in 1 .. Len(s) - Len(from) + 1 :
          SubSeq(s, k, k + Len(from) - 1) = from
    THEN LET k == CHOOSE k \in 1 .. Len(s) - Len(from) + 1 :
                    /\ SubSeq(s, k, k + Len(from) - 1) = from
                    /\ \A j \in 1 .. k - 1 :
                          SubSeq(s, j, j + Len(from) - 1) # from
         IN  SubSeq(s, 1, k - 1) \o to
                \o SubSeq(s, k + Len(from), Len(s))
    ELSE s

\* str::replace: the matches of `from`, found left to right and not
\* overlapping, each replaced by `to`; the replacement is not scanned again.
RECURSIVE replace(_, _, _)
replace(s, from, to) ==
    IF Len(s) < Len(from) THEN s
    ELSE IF SubSeq(s, 1, Len(from)) = from
         THEN to \o replace(SubSeq(s, Len(from) + 1, Len(s)), from, to)
         ELSE <<s[1]>> \o replace(Tail(s), from, to)

\* StdinCommand without .stdin(in_file): the child reads the parent's stdin.
StdinCommandNoStdin(i) == [arg |-> command, stdin |-> Inherit]

\* StdinRunner::get_command, once the source file is open:
\* `shell -c command`, reading the file.
StdinCommand(i) == [arg |-> command, stdin |-> path(i)]

\* FilenameRunner::get_command, for a path that is valid Unicode:
\* `shell -c command.replace("{}", path)`, with no stdin set.
FilenameCommand(i) ==
    [arg |-> replace(command, <<"{", "}">>, path(i)), stdin |-> Inherit]

\* base_directory: destination_dir with the entry's file name pushed.
destination_dir == <<"dst">>

base_directory(i) == Append(destination_dir, file_name(i))

out_path(i) == Append(base_directory(i), "out")

err_path(i) == Append(base_directory(i), "err")

\* Create without truncation (OpenOptions::append): what the file holds stays.
CreateAppending(p) ==
    IF p \in DOMAIN files THEN files ELSE (p :> <<>>) @@ files

\* fs::File::create: the file exists and is empty afterwards.
Create(p) == (p :> <<>>) @@ files

\* What a child reads on its stdin.
StdinBytes(p) ==
    IF \E i \in Entries : path(i) = p
    THEN Contents(CHOOSE i \in Entries : path(i) = p)
    ELSE <<>>

\* What the commands of the tests write: `cat` copies its stdin, `echo -n x`
\* writes x; neither writes to stderr.
ChildStdout(c) ==
    IF c.arg = Cat THEN StdinBytes(c.stdin)
    ELSE IF Len(c.arg) >= Len(EchoPrefix)
            /\ SubSeq(c.arg, 1, Len(EchoPrefix)) = EchoPrefix
         THEN SubSeq(c.arg, Len(EchoPrefix) + 1, Len(c.arg))
         ELSE <<>>

ChildStderr(c) == <<>>

---------------------------------------------------------------------------
(* The scheduler: try_for_each_concurrent(num_processes, ...) *)

InFlightPcs == {"metadata", "get_command", "ensure_directory", "create_out",
                "create_err", "spawn", "wait"}

\* The futures try_for_each_concurrent holds.
InFlight == {i \in Entries : tasks[i].pc \in InFlightPcs}

\* LimitAllows of a scheduler that works in batches: another entry is taken
\* only when every future held has finished.
LimitAllowsBatch == num_processes = 0 \/ InFlight = {}

\* LimitAllows taking 0 for a ceiling of no task at all.
LimitAllowsZero == Cardinality(InFlight) < num_processes

\* LimitAllows off by one: another entry is taken while `limit` futures are
\* held.
LimitAllowsOffByOne ==
    num_processes = 0 \/ Cardinality(InFlight) <= num_processes

\* try_for_each_concurrent polls the stream for another entry only while it
\* holds fewer than `limit` futures; a limit of 0 is no limit.
LimitAllows ==
    num_processes = 0 \/ Cardinality(InFlight) < num_processes

\* The futures are polled until run returns.
Polling == pc \in {"streaming", "drained"}

\* Progress::task_completed, called with the outcome of the i-th entry's task.
TaskCompleted(i) == [completed EXCEPT ![i] = @ + 1]

\* The first Err ends try_for_each_concurrent: the futures in flight are
\* dropped and run returns the error.  i is the task that failed, 0 when the
\* stream did.
Abort(i, cause) ==
    /\ tasks' = [j \in Entries |->
                   IF j = i THEN [tasks[j] EXCEPT !.pc = "failed"]
                   ELSE IF j \in InFlight
                        THEN [tasks[j] EXCEPT !.pc = "dropped"]
                        ELSE tasks[j]]
    /\ pc' = "returned"
    /\ result' = "Err"
    /\ error' = cause

\* An Err of runner.run: the outcome is reported, then propagated.
RunnerErr(i, cause) ==
    /\ Abort(i, cause)
    /\ completed' = TaskCompleted(i)

Goto(i, where) == tasks' = [tasks EXCEPT ![i].pc = where]

---------------------------------------------------------------------------
(* Each::run *)

\* ReadDir without the `?`: the error is noted and the run goes on.
ReadDirErrorIgnored ==
    /\ pc = "start"
    /\ \/ pc' = "announce" /\ UNCHANGED <<result, error>>
       \/ pc' = "announce" /\ result' = "Err" /\ error' = "read_dir"
    /\ UNCHANGED <<config, next_entry, tasks, children, dirs, files,
                   num_tasks, completed>>

\* fs::read_dir(&self.source_dir).await?
ReadDir ==
    /\ pc = "start"
    /\ \/ pc' = "announce" /\ UNCHANGED <<result, error>>
       \/ pc' = "returned" /\ result' = "Err" /\ error' = "read_dir"
    /\ UNCHANGED <<config, next_entry, tasks, children, dirs, files,
                   num_tasks, completed>>

\* SetNumTasks counting every entry, regular or not.
SetNumTasksAllEntries ==
    /\ pc = "announce"
    /\ num_tasks' = Append(num_tasks, Len(source_dir))
    /\ pc' = "streaming"
    /\ UNCHANGED <<config, result, error, next_entry, tasks, children, dirs,
                   files, completed>>

\* Progress::set_num_tasks: the reporter is told the number of regular
\* files once the file list is known, before the work starts.
SetNumTasks ==
    /\ pc = "announce"
    /\ num_tasks' = Append(num_tasks, Cardinality(RegularFiles))
    /\ pc' = "streaming"
    /\ UNCHANGED <<config, result, error, next_entry, tasks, children, dirs,
                   files, completed>>

\* The stream yields the next entry and its future is pushed.
StreamEntry ==
    /\ pc = "streaming"
    /\ LimitAllows
    /\ next_entry <= Len(source_dir)
    /\ Goto(next_entry, "metadata")
    /\ next_entry' = next_entry + 1
    /\ UNCHANGED <<config, pc, result, error, children, dirs, files,
                   num_tasks, completed>>

\* The stream yields an io::Error: reading the directory failed.
StreamErr ==
    /\ pc = "streaming"
    /\ LimitAllows
    /\ Abort(0, "read_entry")
    /\ UNCHANGED <<config, next_entry, children, dirs, files, num_tasks,
                   completed>>

\* The stream ends.
StreamEnd ==
    /\ pc = "streaming"
    /\ LimitAllows
    /\ next_entry > Len(source_dir)
    /\ pc' = "drained"
    /\ UNCHANGED <<config, result, error, next_entry, tasks, children, dirs,
                   files, num_tasks, completed>>

\* ReturnOk with a timeout: once the stream has ended the run gives up on the
\* futures still held and returns.
ReturnOkTimeout ==
    /\ pc = "drained"
    /\ pc' = "returned"
    /\ result' = "Ok"
    /\ tasks' = [j \in Entries |->
                   IF j \in InFlight THEN [tasks[j] EXCEPT !.pc = "dropped"]
                   ELSE tasks[j]]
    /\ UNCHANGED <<config, error, next_entry, children, dirs, files,
                   num_tasks, completed>>

\* ReturnOk refusing a directory without entries.
ReturnOkUnlessEmpty ==
    /\ pc = "drained"
    /\ InFlight = {}
    /\ pc' = "returned"
    /\ result' = IF source_dir = << >> THEN "Err" ELSE "Ok"
    /\ UNCHANGED <<config, error, next_entry, tasks, children, dirs, files,
                   num_tasks, completed>>

\* The stream has ended and no future is left: Ok(()).
ReturnOk ==
    /\ pc = "drained"
    /\ InFlight = {}
    /\ pc' = "returned"
    /\ result' = "Ok"
    /\ UNCHANGED <<config, error, next_entry, tasks, children, dirs, files,
                   num_tasks, completed>>

\* source_file.metadata().await?, then the branch on metadata.is_file().
Metadata(i) ==
    /\ Polling
    /\ tasks[i].pc = "metadata"
    /\ \/ /\ IsFile(i)
          /\ Goto(i, "get_command")
          /\ UNCHANGED <<pc, result, error>>
       \/ /\ ~IsFile(i)
          /\ Goto(i, "skipped")
          /\ UNCHANGED <<pc, result, error>>
       \/ Abort(i, "metadata")
    /\ UNCHANGED <<config, next_entry, children, dirs, files, num_tasks,
                   completed>>

---------------------------------------------------------------------------
(* Runner::run, the same steps in StdinRunner and in FilenameRunner *)

\* GetCommand after the output is prepared: the result directory is there
\* when the command is built, or fails to be.
GetCommandAfterOutput(i) ==
    /\ Polling
    /\ tasks[i].pc = "get_command"
    /\ dirs' = dirs \cup {base_directory(i)}
    /\ \/ /\ input_mode = "Stdin"
          /\ tasks' = [tasks EXCEPT ![i].pc = "ensure_directory",
                                    ![i].command = StdinCommand(i)]
          /\ UNCHANGED <<pc, result, error, completed>>
       \/ /\ input_mode = "Stdin"
          /\ RunnerErr(i, "open")
       \/ /\ input_mode = "Filename"
          /\ tasks' = [tasks EXCEPT ![i].pc = "ensure_directory",
                                    ![i].command = FilenameCommand(i)]
          /\ UNCHANGED <<pc, result, error, completed>>
       \/ /\ input_mode = "Filename"
          /\ RunnerErr(i, "non_unicode")
    /\ UNCHANGED <<config, next_entry, children, files, num_tasks>>

\* self.get_command(source_file).await?
GetCommand(i) ==
    /\ Polling
    /\ tasks[i].pc = "get_command"
    /\ \/ /\ input_mode = "Stdin"
          /\ tasks' = [tasks EXCEPT ![i].pc = "ensure_directory",
                                    ![i].command = StdinCommand(i)]
          /\ UNCHANGED <<pc, result, error, completed>>
       \/ /\ input_mode = "Stdin"
          /\ RunnerErr(i, "open")
       \/ /\ input_mode = "Filename"
          /\ tasks' = [tasks EXCEPT ![i].pc = "ensure_directory",
                                    ![i].command = FilenameCommand(i)]
          /\ UNCHANGED <<pc, result, error, completed>>
       \/ /\ input_mode = "Filename"
          /\ RunnerErr(i, "non_unicode")
    /\ UNCHANGED <<config, next_entry, children, dirs, files, num_tasks>>

\* What fs::create_dir_all may return.
CreateDirResults == {"Ok", "NotFound", "Other"}

\* ensure_directory: Ok, and an error of kind NotFound, are Ok(()).
ensure_directory(r) == IF r \in {"Ok", "NotFound"} THEN "Ok" ELSE "Err"

\* ensure_directory(&base_directory).await?
EnsureDirectory(i) ==
    /\ Polling
    /\ tasks[i].pc = "ensure_directory"
    /\ \E r \in CreateDirResults :
          /\ dirs' = IF r = "Ok" THEN dirs \cup {base_directory(i)} ELSE dirs
          /\ IF ensure_directory(r) = "Ok"
             THEN /\ Goto(i, "create_out")
                  /\ UNCHANGED <<pc, result, error, completed>>
             ELSE RunnerErr(i, "create_dir")
    /\ UNCHANGED <<config, next_entry, children, files, num_tasks>>

\* fs::File::create(out_path).await?: it fails in a directory that does not
\* exist, and may fail in one that does.
CreateOut(i) ==
    /\ Polling
    /\ tasks[i].pc = "create_out"
    /\ \/ /\ base_directory(i) \in dirs
          /\ files' = Create(out_path(i))
          /\ tasks' = [tasks EXCEPT ![i].pc = "create_err",
                                    ![i].out_file = out_path(i)]
          /\ UNCHANGED <<pc, result, error, completed>>
       \/ /\ RunnerErr(i, "create_out")
          /\ UNCHANGED files
    /\ UNCHANGED <<config, next_entry, children, dirs, num_tasks>>

\* fs::File::create(err_path).await?
CreateErr(i) ==
    /\ Polling
    /\ tasks[i].pc = "create_err"
    /\ \/ /\ base_directory(i) \in dirs
          /\ files' = Create(err_path(i))
          /\ tasks' = [tasks EXCEPT ![i].pc = "spawn",
                                    ![i].err_file = err_path(i)]
          /\ UNCHANGED <<pc, result, error, completed>>
       \/ /\ RunnerErr(i, "create_err")
          /\ UNCHANGED files
    /\ UNCHANGED <<config, next_entry, children, dirs, num_tasks>>

\* command.stdout(out_file).stderr(err_file).spawn()?
Spawn(i) ==
    /\ Polling
    /\ tasks[i].pc = "spawn"
    /\ \/ /\ children' = [children EXCEPT ![i] =
                [state |-> "running", status |-> -1,
                 arg |-> tasks[i].command.arg,
                 stdin |-> tasks[i].command.stdin,
                 stdout |-> tasks[i].out_file,
                 stderr |-> tasks[i].err_file]]
          /\ Goto(i, "wait")
          /\ UNCHANGED <<pc, result, error, completed>>
       \/ /\ RunnerErr(i, "spawn")
          /\ UNCHANGED children
    /\ UNCHANGED <<config, next_entry, dirs, files, num_tasks>>

\* The child writes its output and exits, with any status, unless the
\* command never terminates on this entry.  A child whose task was dropped
\* runs on and exits too.
ChildExit(i) ==
    /\ children[i].state = "running"
    /\ i \notin hung
    /\ \E status \in ExitStatuses :
          children' = [children EXCEPT ![i].state = "exited",
                                       ![i].status = status]
    /\ files' = LET c == children[i]
                    written == [files EXCEPT
                                  ![c.stdout] = @ \o ChildStdout(c)]
                IN  [written EXCEPT ![c.stderr] = @ \o ChildStderr(c)]
    /\ UNCHANGED <<config, pc, result, error, next_entry, tasks, dirs,
                   num_tasks, completed>>

\* Wait that does not block: the task is done whether the child has exited
\* or not.
WaitWithoutBlocking(i) ==
    /\ Polling
    /\ tasks[i].pc = "wait"
    /\ \/ /\ Goto(i, "done")
          /\ completed' = TaskCompleted(i)
          /\ UNCHANGED <<pc, result, error>>
       \/ RunnerErr(i, "wait")
    /\ UNCHANGED <<config, next_entry, children, dirs, files, num_tasks>>

\* Wait of a reach that retries: after a nonzero exit status, with retries
\* asked for, the command is spawned again.
WaitRetries(i) ==
    /\ Polling
    /\ tasks[i].pc = "wait"
    /\ \/ /\ children[i].state = "exited"
          /\ children[i].status = 0 \/ opts.retries = 0
          /\ Goto(i, "done")
          /\ completed' = TaskCompleted(i)
          /\ UNCHANGED <<pc, result, error>>
       \/ /\ children[i].state = "exited"
          /\ children[i].status # 0 /\ opts.retries > 0
          /\ Goto(i, "spawn")
          /\ UNCHANGED <<pc, result, error, completed>>
       \/ RunnerErr(i, "wait")
    /\ UNCHANGED <<config, next_entry, children, dirs, files, num_tasks>>

\* Wait with a nonzero exit status turned into an Err.
WaitChecksStatus(i) ==
    /\ Polling
    /\ tasks[i].pc = "wait"
    /\ \/ /\ children[i].state = "exited"
          /\ children[i].status = 0
          /\ Goto(i, "done")
          /\ completed' = TaskCompleted(i)
          /\ UNCHANGED <<pc, result, error>>
       \/ /\ children[i].state = "exited"
          /\ children[i].status # 0
          /\ RunnerErr(i, "exit_status")
       \/ RunnerErr(i, "wait")
    /\ UNCHANGED <<config, next_entry, children, dirs, files, num_tasks>>

\* child_process.wait().await?; Ok(()): whatever the exit status.
Wait(i) ==
    /\ Polling
    /\ tasks[i].pc = "wait"
    /\ \/ /\ children[i].state = "exited"
          /\ Goto(i, "done")
          /\ completed' = TaskCompleted(i)
          /\ UNCHANGED <<pc, result, error>>
       \/ RunnerErr(i, "wait")
    /\ UNCHANGED <<config, next_entry, children, dirs, files, num_tasks>>

---------------------------------------------------------------------------
(* The specification *)

\* The directories of at most MaxEntries entries.
Directories ==
    UNION {[1 .. n -> Kinds] : n \in 0 .. MaxEntries}

\* The runs of the tests: `cat` on stdin, `echo -n {}` on the file name.
Runs == {<<"Stdin", Cat>>, <<"Filename", EchoName>>}

\* Nothing has run yet.
NothingRun ==
    /\ result = "none"
    /\ error = "none"
    /\ next_entry = 1
    /\ tasks = [i \in Entries |-> NewTask]
    /\ children = [i \in Entries |-> NoChild]
    /\ dirs = {}
    /\ files = << >>
    /\ num_tasks = << >>
    /\ completed = [i \in Entries |-> 0]
    /\ earlier = << >>

\* run is about to be called.
InitRun ==
    /\ pc = "start"
    /\ NothingRun

\* An Option: None is the empty sequence, Some(x) is <<x>>.
None == << >>

Some(x) == <<x>>

\* The Config the tests build: recreate: true, retries: 1.
TestOpts ==
    [input_mode |-> Some(input_mode), processes |-> Some(num_processes),
     recreate |-> TRUE, retries |-> 1]

Init ==
    /\ source_dir \in Directories
    /\ num_processes \in 1 .. MaxProcs
    /\ \E r \in Runs : input_mode = r[1] /\ command = r[2]
    /\ opts = TestOpts
    /\ hung = {}
    /\ InitRun

Next ==
    \/ ReadDir
    \/ SetNumTasks
    \/ StreamEntry
    \/ StreamErr
    \/ StreamEnd
    \/ ReturnOk
    \/ \E i \in Entries : Metadata(i)
    \/ \E i \in Entries : GetCommand(i)
    \/ \E i \in Entries : EnsureDirectory(i)
    \/ \E i \in Entries : CreateOut(i)
    \/ \E i \in Entries : CreateErr(i)
    \/ \E i \in Entries : Spawn(i)
    \/ \E i \in Entries : ChildExit(i)
    \/ \E i \in Entries : Wait(i)

Spec == Init /\ [][Next]_vars

\* The command texts of at most MaxCmdLen characters.
CmdChars == {"{", "}", "e"}

Commands == UNION {[1 .. n -> CmdChars] : n \in 0 .. MaxCmdLen}

\* Runs of every command text over a directory of at most one entry.
InitCmd ==
    /\ source_dir \in {<< >>, <<"file">>, <<"dir">>, <<"symlink">>}
    /\ num_processes = 1
    /\ input_mode \in InputMode
    /\ command \in Commands
    /\ opts = TestOpts
    /\ hung = {}
    /\ InitRun

SpecCmd == InitCmd /\ [][Next]_vars

\* The directories of at most MaxEntriesSmall entries.
SmallDirectories ==
    UNION {[1 .. n -> Kinds] : n \in 0 .. MaxEntriesSmall}

\* What num_cpus::get() may return.
NumCpus == 1 .. MaxProcs

\* opts.processes.unwrap_or_else(num_cpus::get), for n cpus.
processes_or(o, n) == IF o.processes = None THEN n ELSE o.processes[1]

\* opts.input_mode.unwrap_or(InputMode::Stdin)
input_mode_or(o) == IF o.input_mode = None THEN "Stdin" ELSE o.input_mode[1]

\* parse_options, then main's call of run: the Config is built from the
\* Opts, or the source or destination directory is refused and reach exits.
ParseOptions ==
    /\ pc = "parse_options"
    /\ \/ /\ \E n \in NumCpus : num_processes' = processes_or(opts, n)
          /\ input_mode' = input_mode_or(opts)
          /\ pc' = "start"
       \/ /\ pc' = "exit"
          /\ UNCHANGED <<num_processes, input_mode>>
    /\ UNCHANGED <<source_dir, command, opts, hung, earlier, result, error,
                   next_entry, tasks, children, dirs, files, num_tasks,
                   completed>>

\* The values of --retries of the command lines.
Retries == {0, 1}

\* The command lines: every --input-mode, -j and --retries, given or not,
\* with or without --recreate.
CommandLines ==
    [input_mode : {None} \cup {Some(m) : m \in InputMode},
     processes : {None} \cup {Some(n) : n \in 0 .. MaxProcs},
     recreate : BOOLEAN,
     retries : Retries]

\* The Config is not built yet.
InitMain ==
    /\ num_processes = 0
    /\ input_mode = "unset"
    /\ hung = {}
    /\ pc = "parse_options"
    /\ NothingRun

InitOpts ==
    /\ source_dir \in SmallDirectories
    /\ command \in {Cat, EchoName}
    /\ opts \in CommandLines
    /\ InitMain

NextOpts ==
    \/ ParseOptions
    \/ Next

\* reach from its command line on.
SpecOpts == InitOpts /\ [][NextOpts]_vars

\* reach -j 0, with the commands of the tests.
InitNoLimit ==
    /\ source_dir \in Directories
    /\ \E r \in Runs :
          /\ command = r[2]
          /\ opts = [input_mode |-> Some(r[1]), processes |-> Some(0),
                     recreate |-> FALSE, retries |-> 0]
    /\ InitMain

SpecNoLimit == InitNoLimit /\ [][NextOpts]_vars

\* reach is run again with the same configuration, once the first run has
\* returned and its children have exited: what the first run left under the
\* destination is still there.
Rerun ==
    /\ pc = "returned"
    /\ earlier = << >>
    /\ \A i \in Entries : children[i].state # "running"
    /\ earlier' = Append(earlier, files)
    /\ pc' = "start"
    /\ result' = "none"
    /\ error' = "none"
    /\ next_entry' = 1
    /\ tasks' = [i \in Entries |-> NewTask]
    /\ children' = [i \in Entries |-> NoChild]
    /\ num_tasks' = << >>
    /\ completed' = [i \in Entries |-> 0]
    /\ UNCHANGED <<source_dir, num_processes, input_mode, command, opts, hung,
                   dirs, files>>

NextTwice ==
    \/ Next
    \/ Rerun

InitTwice ==
    /\ source_dir \in SmallDirectories
    /\ num_processes \in 1 .. MaxProcs
    /\ \E r \in Runs : input_mode = r[1] /\ command = r[2]
    /\ opts = TestOpts
    /\ hung = {}
    /\ InitRun

\* Two runs, one after the other, with the same configuration.
SpecTwice == InitTwice /\ [][NextTwice]_vars

\* A step of the i-th entry's task that its future takes once polled: every
\* await but wait() is ready in time, and wait() is once the child has exited.
TaskStep(i) ==
    /\ i \in Entries
    /\ \/ Metadata(i)
       \/ GetCommand(i)
       \/ EnsureDirectory(i)
       \/ CreateOut(i)
       \/ CreateErr(i)
       \/ Spawn(i)
       \/ children[i].state = "exited" /\ Wait(i)

\* The runtime goes on polling run, the stream and the futures held, and a
\* child of a command that terminates does exit.
Fairness ==
    /\ WF_vars(ReadDir)
    /\ WF_vars(SetNumTasks)
    /\ WF_vars(StreamEntry \/ StreamErr \/ StreamEnd)
    /\ WF_vars(ReturnOk)
    /\ \A i \in 1 .. MaxEntriesSmall :
          /\ WF_vars(TaskStep(i))
          /\ WF_vars(i \in Entries /\ ChildExit(i))

\* The command may never terminate on some of the entries.
InitFair ==
    /\ source_dir \in SmallDirectories
    /\ num_processes \in 1 .. MaxProcs
    /\ \E r \in Runs : input_mode = r[1] /\ command = r[2]
    /\ opts = TestOpts
    /\ hung \in SUBSET Entries
    /\ InitRun

\* A run that is scheduled fairly.
FairSpec == InitFair /\ [][Next]_vars /\ Fairness

---------------------------------------------------------------------------
(* What the properties speak of *)

\* The children spawned and not yet waited to termination.
Unwaited ==
    {i \in Entries : children[i].state # "none" /\ tasks[i].pc # "done"}

EnumerationErrors == {"read_dir", "read_entry"}

\* The io::Errors a task can end with.
TaskErrors == {"metadata", "open", "non_unicode", "create_dir", "create_out",
               "create_err", "spawn", "wait"}

Returned == pc = "returned"

\* The entries that are regular files, from the directory itself.
Regular == {i \in Entries : source_dir[i] = "file"}

ResultDir(i) == <<"dst", ToString(i)>>

OutFile(i) == <<"dst", ToString(i), "out">>

ErrFile(i) == <<"dst", ToString(i), "err">>

NothingStarted ==
    /\ \A i \in Entries : tasks[i].pc = "unread" /\ children[i] = NoChild
    /\ dirs = {}
    /\ DOMAIN files = {}

---------------------------------------------------------------------------
(* C1 *)

\* C1: with num_processes = k >= 1, in every reachable state of a run the
\* number of children spawned and not yet waited to termination is at most
\* k, whatever the size of the source directory.
C1_ConcurrencyCeiling ==
    num_processes >= 1 => Cardinality(Unwaited) <= num_processes

\* The ceiling binds: k >= 2 children run and an entry is still to be read.
C1_Witness ==
    /\ num_processes >= 2
    /\ Cardinality({i \in Entries : children[i].state = "running"})
          = num_processes
    /\ pc = "streaming"
    /\ next_entry <= Len(source_dir)
    /\ source_dir[next_entry] = "file"

---------------------------------------------------------------------------
(* C2 *)

\* C2: a per-file failure does not make the run report failure: when the
\* source directory can be enumerated, run returns Ok(()) even if a file's
\* task failed.
C2_PerFileFailureReturnsOk ==
    (Returned /\ error \notin EnumerationErrors) => result = "Ok"

---------------------------------------------------------------------------
(* C3 *)

\* C3: a per-file failure in one task does not abort its siblings: once the
\* run has returned, every other regular file's command has been spawned
\* and waited for to completion.
C3_SiblingsStillRun ==
    (Returned /\ error \in TaskErrors) =>
        \A j \in Regular :
            tasks[j].pc # "failed" =>
                tasks[j].pc = "done" /\ children[j].state = "exited"

---------------------------------------------------------------------------
(* C4 *)

---------------------------------------------------------------------------
(* C5 *)

\* C5: when run returns Ok(()), every spawned child has terminated, the
\* result locations under the destination are exactly those of the regular
\* files of the source directory, each holding an out and an err file, and
\* the other entries have no result location and no process.
C5_ResultLocations ==
    (Returned /\ result = "Ok") =>
        /\ \A i \in Entries : children[i].state \in {"none", "exited"}
        /\ dirs = {ResultDir(i) : i \in Regular}
        /\ DOMAIN files = {OutFile(i) : i \in Regular}
                             \cup {ErrFile(i) : i \in Regular}
        /\ \A i \in Regular : children[i].state = "exited"
        /\ \A i \in Entries \ Regular :
              children[i] = NoChild /\ tasks[i].pc = "skipped"

\* A run over a regular file and a directory has returned Ok(()).
C5_Witness ==
    /\ Returned
    /\ result = "Ok"
    /\ Regular # {}
    /\ Entries \ Regular # {}

---------------------------------------------------------------------------
(* C6 *)

\* C6: in every run, task_completed is called exactly once for each regular
\* file of the source directory, whether its task succeeded or failed, and
\* never for another entry.  Stated of the runs that have returned without
\* an error of the enumeration or of a metadata lookup.
C6_CompletedOncePerFile ==
    (Returned /\ error \notin EnumerationErrors \cup {"metadata"}) =>
        \A i \in Entries : completed[i] = IF i \in Regular THEN 1 ELSE 0

---------------------------------------------------------------------------
(* C7 *)

---------------------------------------------------------------------------
(* C8 *)

\* C8: a child that exits with a nonzero status is a completed task, not an
\* error: run returns Err only with the io::Error of an operation, and a
\* run in which no operation failed returns Ok(()) with every regular file
\* processed, whatever the exit statuses.
C8_NonzeroExitIsNoError ==
    /\ result = "Err" => error \in EnumerationErrors \cup TaskErrors
    /\ \A i \in Entries :
          (children[i].state = "exited" /\ tasks[i].pc = "failed") =>
              error = "wait"
    /\ (Returned /\ error = "none") =>
          /\ result = "Ok"
          /\ \A i \in Regular :
                tasks[i].pc = "done" /\ children[i].state = "exited"

\* Run has returned Ok(()) after a child exited with a nonzero status and
\* another regular file was processed.
C8_Witness ==
    /\ Returned
    /\ result = "Ok"
    /\ \E i, j \in Regular :
          /\ i < j
          /\ children[i].status = 1
          /\ tasks[i].pc = "done"
          /\ tasks[j].pc = "done"

---------------------------------------------------------------------------
(* C9 *)

\* C9: in stdin mode, under any interleaving, the child spawned for a file
\* reads that file on its stdin and writes to that file's own out and err;
\* with `cat`, after run returns Ok(()), each regular file's out holds the
\* file's contents and its err is empty.
C9_StdinOwnFile ==
    input_mode = "Stdin" =>
        /\ \A i \in Entries :
              children[i].state # "none" =>
                  /\ children[i].stdin = <<"/", "s", "/", ToString(i)>>
                  /\ children[i].stdout = OutFile(i)
                  /\ children[i].stderr = ErrFile(i)
        /\ (Returned /\ result = "Ok" /\ command = Cat) =>
              \A i \in Regular :
                  /\ files[OutFile(i)] = Contents(i)
                  /\ files[ErrFile(i)] = << >>

\* A run of `cat` on stdin over two regular files, with two processes, has
\* returned Ok(()).
C9_Witness ==
    /\ input_mode = "Stdin"
    /\ command = Cat
    /\ num_processes >= 2
    /\ Returned
    /\ result = "Ok"
    /\ Cardinality(Regular) >= 2

---------------------------------------------------------------------------
(* C10 *)

\* Whether the token {} starts at position k of the command text.
TokenAt(text, k) == k < Len(text) /\ text[k] = "{" /\ text[k + 1] = "}"

\* The command text from position k on, with every {} read as the path and
\* every other character as itself.
RECURSIVE Substituted(_, _, _)
Substituted(text, p, k) ==
    IF k > Len(text) THEN << >>
    ELSE IF TokenAt(text, k) THEN p \o Substituted(text, p, k + 2)
    ELSE <<text[k]>> \o Substituted(text, p, k + 1)

\* C10: in filename mode the command text passed to `shell -c` for a file is
\* the configured command with every occurrence of {} replaced by the
\* file's absolute path and every other character unchanged, and no stdin
\* is wired to the file.
C10_FilenameSubstitution ==
    input_mode = "Filename" =>
        \A i \in Entries :
            /\ tasks[i].command # NoCommand =>
                  /\ tasks[i].command.arg
                        = Substituted(command, <<"/", "s", "/", ToString(i)>>, 1)
                  /\ tasks[i].command.stdin = Inherit
            /\ children[i].state # "none" =>
                  /\ children[i].arg
                        = Substituted(command, <<"/", "s", "/", ToString(i)>>, 1)
                  /\ children[i].stdin = Inherit

\* A child has been spawned in filename mode for a command in which {}
\* occurs twice.
C10_Witness ==
    /\ input_mode = "Filename"
    /\ command = <<"{", "}", "{", "}">>
    /\ \E i \in Entries : children[i].state = "running"

---------------------------------------------------------------------------
(* C11 *)

\* What the command of the run writes to stdout for the i-th entry.
ExpectedOut(i) ==
    IF command = Cat
    THEN IF input_mode = "Stdin" THEN Contents(i) ELSE << >>
    ELSE IF input_mode = "Stdin" THEN <<"{", "}">>
         ELSE <<"/", "s", "/", ToString(i)>>

---------------------------------------------------------------------------
(* C12 *)

\* C12: a run against an empty source directory spawns no child and creates
\* no result location, and it returns Ok(()): once the directory is open
\* the stream can end and run can return, and run returns Err only with an
\* error of the enumeration; in stdin mode and in filename mode.
C12_EmptyDirectory ==
    source_dir = << >> =>
        /\ NothingStarted
        /\ pc = "streaming" => ENABLED StreamEnd
        /\ pc = "drained" => ENABLED ReturnOk
        /\ result = "Err" => error \in EnumerationErrors
        /\ (Returned /\ error = "none") => result = "Ok"

\* A run in filename mode against an empty directory has returned Ok(()).
C12_Witness ==
    /\ source_dir = << >>
    /\ input_mode = "Filename"
    /\ Returned
    /\ result = "Ok"

---------------------------------------------------------------------------
(* C13 *)

\* Whether the token {} occurs in the command text.
ContainsToken(text) == \E k \in 1 .. Len(text) : TokenAt(text, k)

\* The Config has been built from the command line.
Parsed == pc \notin {"parse_options", "exit"}

\* C13: when no input mode is given on the command line, the configured
\* input mode is stdin unless the command contains {}, in which case it is
\* filename.
C13_DefaultInputMode ==
    (Parsed /\ opts.input_mode = None) =>
        input_mode = IF ContainsToken(command) THEN "Filename" ELSE "Stdin"

---------------------------------------------------------------------------
(* C14 *)

\* The child of the i-th entry's task has been spawned.
Spawned(i) == children[i].state # "none"

---------------------------------------------------------------------------
(* C15 *)

\* The n-th entry is the next one, and fewer than num_processes tasks are
\* in flight.
SlotFreeFor(n) ==
    /\ pc = "streaming"
    /\ next_entry = n
    /\ n <= Len(source_dir)
    /\ Cardinality(InFlight) < num_processes

\* The command never terminates on fewer regular files than there are slots.
HungLeaveASlot == Cardinality(hung \cap RegularFiles) < num_processes

---------------------------------------------------------------------------
(* C16 *)

\* The steps of a task after ensure_directory has returned Ok(()).
PastEnsureDirectory == {"create_out", "create_err", "spawn", "wait", "done"}

\* C16: a failure to create the result directory, the out file or the err
\* file is the task's error and no child is spawned; a task goes on past the
\* creation of its directory only when the directory exists, past that of
\* out only when out exists, and spawns only when err exists too.
C16_CreationFailurePropagates ==
    \A i \in Entries :
        /\ tasks[i].pc \in PastEnsureDirectory => ResultDir(i) \in dirs
        /\ tasks[i].pc \in PastEnsureDirectory \ {"create_out"} =>
              OutFile(i) \in DOMAIN files
        /\ Spawned(i) => {OutFile(i), ErrFile(i)} \subseteq DOMAIN files
        /\ (tasks[i].pc = "failed"
               /\ error \in {"create_dir", "create_out", "create_err"}) =>
              ~Spawned(i)

---------------------------------------------------------------------------
(* C17 *)

\* The files a task holds a handle to.
Handles(i) == {tasks[i].out_file, tasks[i].err_file} \ {NoFile}

\* A step starts a task for an entry only if none was started for it, and
\* spawns a child for it only if none was spawned.
OneTaskOneSpawn ==
    \A i \in Entries :
        /\ (tasks'[i].pc = "metadata" /\ tasks[i].pc # "metadata") =>
              tasks[i].pc = "unread"
        /\ tasks[i].pc # "unread" => tasks'[i].pc # "unread"
        /\ (children'[i].state = "running" /\ children[i].state # "running") =>
              children[i] = NoChild
        /\ Spawned(i) => Spawned(i)'

---------------------------------------------------------------------------
(* C18 *)

\* C18: no timeout: when the command terminates on every regular file, run
\* eventually returns; once a child that never terminates has been spawned,
\* run returns only with an error, and it returns Ok only when every child
\* spawned has exited.
C18_NoTimeout ==
    /\ (hung \cap RegularFiles = {}) => <>Returned
    /\ [](\A i \in Entries :
            (i \in hung /\ Spawned(i) /\ Returned) => result = "Err")
    /\ []((Returned /\ result = "Ok") =>
            \A i \in Entries : Spawned(i) => children[i].state = "exited")

\* The stream has ended, every other task has finished, and run waits for a
\* child that never terminates.
C18_Witness ==
    \E h \in Entries :
        /\ h \in hung
        /\ children[h].state = "running"
        /\ pc = "drained"
        /\ InFlight = {h}
        /\ \E j \in Entries : tasks[j].pc = "done"

---------------------------------------------------------------------------
(* C19 *)

\* Nothing has been prepared or spawned for the i-th entry.
NoOutputFor(i) ==
    /\ ResultDir(i) \notin dirs
    /\ OutFile(i) \notin DOMAIN files
    /\ ErrFile(i) \notin DOMAIN files
    /\ children[i] = NoChild
    /\ Handles(i) = {}

\* C19: the command is built before the output is prepared: while a file's
\* command is not built, and when building it has failed (the file cannot be
\* opened in stdin mode, its path is not Unicode in filename mode), the file
\* has no result directory, no out or err file and no child.
C19_CommandBeforeOutput ==
    \A i \in Entries :
        /\ tasks[i].pc \in {"unread", "metadata", "get_command"} =>
              NoOutputFor(i)
        /\ (tasks[i].pc = "failed" /\ error \in {"open", "non_unicode"}) =>
              NoOutputFor(i)
        /\ (tasks[i].pc = "failed" /\ error = "open") => input_mode = "Stdin"
        /\ (tasks[i].pc = "failed" /\ error = "non_unicode") =>
              input_mode = "Filename"

\* Building the command has failed for a file after another file's output
\* was prepared.
C19_Witness ==
    \E i, j \in Entries :
        /\ tasks[i].pc = "failed"
        /\ error \in {"open", "non_unicode"}
        /\ ~NoOutputFor(j)
        /\ Returned

---------------------------------------------------------------------------
(* C20 *)

\* The children that are running.
Running == {i \in Entries : children[i].state = "running"}

\* C20: -j 0 is accepted and is no ceiling: the Config gets num_processes = 0
\* and, as long as entries remain, the next one can be taken whatever the
\* number of tasks in flight.
C20_ZeroIsNoCeiling ==
    /\ pc = "parse_options" => ENABLED (ParseOptions /\ pc' = "start")
    /\ Parsed => num_processes = 0
    /\ (pc = "streaming" /\ next_entry <= Len(source_dir)) =>
          ENABLED StreamEntry
    /\ pc = "streaming" => ENABLED (StreamEntry \/ StreamEnd)

\* Every entry is a regular file and the children of all of them are running
\* at once, more of them than any ceiling of the model.
C20_Witness ==
    /\ num_processes = 0
    /\ Running = Entries
    /\ Cardinality(Running) = MaxEntries
    /\ Cardinality(Running) > MaxProcs

===========================================================================
